---- MODULE Spec2Model ----
(***************************************************************************)
(* nand-logs/fix_csv.py: a straight-line script that splices the first     *)
(* column of log57-filter.csv onto the flat value list of log57-covar.csv, *)
(* nine values per row, and writes log57-covar-fixed.csv.                  *)
(*                                                                         *)
(* Text is a sequence of one-character strings, so that readlines, split   *)
(* and join are computed character by character as Python computes them.  *)
(***************************************************************************)
EXTENDS Integers, Sequences, FiniteSets, TLC

\* ---------------------------------------------------------------- bounds
\* Largest number of data lines in the filter file.
MaxRows == 2
\* Largest number of value tokens after the leading token of the covariance file.
MaxTok == 19

\* ------------------------------------------------------------- constants
\* Group width of the chunking loop: parts[:9] / parts[9:].
ChunkSize == 9

NL == "\n"
COMMA == ","

\* ------------------------------------------------------ helper arithmetic
Min(a, b) == IF a < b THEN a ELSE b

Range(s) == {s[k] : k \in 1..Len(s)}

RECURSIVE Flatten(_)
Flatten(ss) == IF ss = <<>> THEN <<>> ELSE Head(ss) \o Flatten(Tail(ss))

Count(s, x) == Cardinality({k \in 1..Len(s) : s[k] = x})

IsPrefix(s, t) == Len(s) <= Len(t) /\ SubSeq(t, 1, Len(s)) = s

\* ------------------------------------------------- Python text primitives
\* seq[a:b] with 0 <= a, 0 <= b (Python slice, clamped to the length).
Slice(s, a, b) == SubSeq(s, a + 1, Min(b, Len(s)))

\* seq[1:], used on the filter lines (line 2) and on the tokens (line 10).
\* The same with the slice start slipped to 0: the first element is kept.
DropFirst_keep(s) == s
DropFirst(s) == Slice(s, 1, Len(s))

\* str.split(sep): always at least one field, empty fields kept.
RECURSIVE SplitAcc(_, _, _, _)
SplitAcc(s, sep, cur, acc) ==
    IF s = <<>> THEN Append(acc, cur)
    ELSE IF Head(s) = sep
         THEN SplitAcc(Tail(s), sep, <<>>, Append(acc, cur))
         ELSE SplitAcc(Tail(s), sep, Append(cur, Head(s)), acc)

Split(s, sep) == SplitAcc(s, sep, <<>>, <<>>)

\* sep.join(list)
RECURSIVE Join(_, _)
Join(sep, ss) ==
    IF ss = <<>> THEN <<>>
    ELSE IF Len(ss) = 1 THEN ss[1]
    ELSE ss[1] \o <<sep>> \o Join(sep, Tail(ss))

\* file.readlines(): lines keep their terminator; a final unterminated
\* non-empty piece is a line too.
RECURSIVE ReadLinesAcc(_, _, _)
ReadLinesAcc(s, cur, acc) ==
    IF s = <<>> THEN (IF cur = <<>> THEN acc ELSE Append(acc, cur))
    ELSE IF Head(s) = NL
         THEN ReadLinesAcc(Tail(s), <<>>, Append(acc, Append(cur, NL)))
         ELSE ReadLinesAcc(Tail(s), Append(cur, Head(s)), acc)

ReadLines(s) == ReadLinesAcc(s, <<>>, <<>>)

\* filt[i].split(',')[0]  (line 23)
Label(line) == Split(line, COMMA)[1]

\* ------------------------------------------------------------ input space
Digit(d) == <<"0", "1", "2", "3", "4", "5", "6", "7", "8", "9">>[d + 1]
NumStr(k) == IF k < 10 THEN <<Digit(k)>>
             ELSE <<Digit(k \div 10), Digit(k % 10)>>

\* Header lines of the filter file; "H" occurs nowhere else in the inputs.
FilterHeaders == { <<"H", COMMA, "H", NL>>, <<"H", NL>> }

\* Data lines: label and another column, a line without a comma, an empty label.
LineShapes == { <<"a", COMMA, "x", NL>>, <<"b", NL>>, <<COMMA, "y", NL>> }

RowSeqs == UNION { [1..n -> LineShapes] : n \in 0..MaxRows }

\* The text without a final line terminator.
Chop(s) == IF s # <<>> /\ s[Len(s)] = NL THEN SubSeq(s, 1, Len(s) - 1) ELSE s

FilterContents ==
    {<<>>} \cup
    { IF nl THEN h \o Flatten(rs) ELSE Chop(h \o Flatten(rs)) :
        h \in FilterHeaders, rs \in RowSeqs, nl \in BOOLEAN }

\* "K" is the leading token; the values are 1, 2, ..., n in order. With gap
\* the second value is empty ("K,1,,3,..."); with nl the text ends in a newline.
CovarText(n, nl, gap) ==
    <<"K">> \o Flatten([k \in 1..n |->
                          <<COMMA>> \o (IF gap /\ k = 2 THEN <<>> ELSE NumStr(k))])
            \o (IF nl THEN <<NL>> ELSE <<>>)

CovarContents ==
    {<<>>} \cup { CovarText(n, nl, gap) :
                     n \in 0..MaxTok, nl \in BOOLEAN, gap \in BOOLEAN }

\* Content of a log57-covar-fixed.csv left by an earlier run.
OldOut == <<"o", NL>>

\* ------------------------------------------------------------------ state
VARIABLES
    pc,            \* position in the script
    exc,           \* exception that ended the run, or "none"
    filterExists, filterFile,   \* log57-filter.csv
    covarExists, covarFile,     \* log57-covar.csv
    outExists, outFile,         \* log57-covar-fixed.csv
    open,          \* files with an open handle
    events,        \* file operations performed so far, in order
    stdout,        \* numbers printed so far
    filt, cov, lines, parts, result, i

vars == <<pc, exc, filterExists, filterFile, covarExists, covarFile,
          outExists, outFile, open, events, stdout,
          filt, cov, lines, parts, result, i>>

files == <<filterExists, filterFile, covarExists, covarFile>>
locals == <<filt, cov, lines, parts, result, i>>

Init ==
    /\ pc = "open_filter"
    /\ exc = "none"
    /\ filterExists \in BOOLEAN
    /\ filterFile \in (IF filterExists THEN FilterContents ELSE {<<>>})
    /\ covarExists \in BOOLEAN
    /\ covarFile \in (IF covarExists THEN CovarContents ELSE {<<>>})
    /\ outExists \in BOOLEAN
    /\ outFile = (IF outExists THEN OldOut ELSE <<>>)
    /\ open = {}
    /\ events = <<>>
    /\ stdout = <<>>
    /\ filt = <<>> /\ cov = <<>> /\ lines = <<>> /\ parts = <<>>
    /\ result = <<>> /\ i = 0

\* ----------------------------------------------------------------- steps
\* line 1: open('log57-filter.csv', 'r')
OpenFilter ==
    /\ pc = "open_filter" /\ filterExists
    /\ open' = open \cup {"filter"}
    /\ events' = Append(events, "open:filter")
    /\ pc' = "read_filter"
    /\ UNCHANGED <<exc, files, outExists, outFile, stdout, locals>>

OpenFilterFail ==
    /\ pc = "open_filter" /\ ~filterExists
    /\ exc' = "FileNotFoundError"
    /\ pc' = "aborted"
    /\ UNCHANGED <<files, outExists, outFile, open, events, stdout, locals>>

\* line 2: filt = f.readlines()[1:]
ReadFilter ==
    /\ pc = "read_filter"
    /\ filt' = DropFirst(ReadLines(filterFile))
    /\ events' = Append(events, "read:filter")
    /\ pc' = "close_filter"
    /\ UNCHANGED <<exc, files, outExists, outFile, open, stdout,
                   cov, lines, parts, result, i>>

\* The filter file read without a with block: the handle is never released.
CloseFilter_leak ==
    /\ pc = "close_filter"
    /\ events' = Append(events, "close:filter")
    /\ pc' = "open_covar"
    /\ UNCHANGED <<exc, files, outExists, outFile, open, stdout, locals>>

\* end of the with block of lines 1-2
CloseFilter ==
    /\ pc = "close_filter"
    /\ open' = open \ {"filter"}
    /\ events' = Append(events, "close:filter")
    /\ pc' = "open_covar"
    /\ UNCHANGED <<exc, files, outExists, outFile, stdout, locals>>

\* line 4: open('log57-covar.csv', 'r')
OpenCovar ==
    /\ pc = "open_covar" /\ covarExists
    /\ open' = open \cup {"covar"}
    /\ events' = Append(events, "open:covar")
    /\ pc' = "read_covar"
    /\ UNCHANGED <<exc, files, outExists, outFile, stdout, locals>>

OpenCovarFail ==
    /\ pc = "open_covar" /\ ~covarExists
    /\ exc' = "FileNotFoundError"
    /\ pc' = "aborted"
    /\ UNCHANGED <<files, outExists, outFile, open, events, stdout, locals>>

\* line 5: cov = f.read()
ReadCovar ==
    /\ pc = "read_covar"
    /\ cov' = covarFile
    /\ events' = Append(events, "read:covar")
    /\ pc' = "close_covar"
    /\ UNCHANGED <<exc, files, outExists, outFile, open, stdout,
                   filt, lines, parts, result, i>>

\* end of the with block of lines 4-5
CloseCovar ==
    /\ pc = "close_covar"
    /\ open' = open \ {"covar"}
    /\ events' = Append(events, "close:covar")
    /\ pc' = "init_lines"
    /\ UNCHANGED <<exc, files, outExists, outFile, stdout, locals>>

\* line 7: lines = []
InitLines ==
    /\ pc = "init_lines"
    /\ lines' = <<>>
    /\ pc' = "split"
    /\ UNCHANGED <<exc, files, outExists, outFile, open, events, stdout,
                   filt, cov, parts, result, i>>

\* line 9: parts = cov.split(',')
SplitCov ==
    /\ pc = "split"
    /\ parts' = Split(cov, COMMA)
    /\ pc' = "drop_first"
    /\ UNCHANGED <<exc, files, outExists, outFile, open, events, stdout,
                   filt, cov, lines, result, i>>

\* line 10: parts = parts[1:]
DropFirstToken ==
    /\ pc = "drop_first"
    /\ parts' = DropFirst(parts)
    /\ pc' = "chunk_loop"
    /\ UNCHANGED <<exc, files, outExists, outFile, open, events, stdout,
                   filt, cov, lines, result, i>>

\* The loop body with parts = parts[10:]: one token lost per group.
ChunkStep_skip ==
    /\ pc = "chunk_loop" /\ Len(parts) > 0
    /\ lines' = Append(lines, Join(COMMA, Slice(parts, 0, ChunkSize)))
    /\ parts' = Slice(parts, ChunkSize + 1, Len(parts))
    /\ UNCHANGED <<pc, exc, files, outExists, outFile, open, events, stdout,
                   filt, cov, result, i>>

\* lines 12-14: one iteration of  while len(parts) > 0
ChunkStep ==
    /\ pc = "chunk_loop" /\ Len(parts) > 0
    /\ lines' = Append(lines, Join(COMMA, Slice(parts, 0, ChunkSize)))
    /\ parts' = Slice(parts, ChunkSize, Len(parts))
    /\ UNCHANGED <<pc, exc, files, outExists, outFile, open, events, stdout,
                   filt, cov, result, i>>

\* line 12: the loop condition is false
ChunkExit ==
    /\ pc = "chunk_loop" /\ ~(Len(parts) > 0)
    /\ pc' = "print_lines"
    /\ UNCHANGED <<exc, files, outExists, outFile, open, events, stdout, locals>>

\* Line 16 printing the label count instead of the chunk count.
PrintLines_filt ==
    /\ pc = "print_lines"
    /\ stdout' = Append(stdout, Len(filt))
    /\ pc' = "print_filt"
    /\ UNCHANGED <<exc, files, outExists, outFile, open, events, locals>>

\* line 16: print(len(lines))
PrintLines ==
    /\ pc = "print_lines"
    /\ stdout' = Append(stdout, Len(lines))
    /\ pc' = "print_filt"
    /\ UNCHANGED <<exc, files, outExists, outFile, open, events, locals>>

\* line 17: print(len(filt))
PrintFilt ==
    /\ pc = "print_filt"
    /\ stdout' = Append(stdout, Len(filt))
    /\ pc' = "assert"
    /\ UNCHANGED <<exc, files, outExists, outFile, open, events, locals>>

\* The check compiled away (no comparison made).
AssertHolds_skip == TRUE

\* line 18: assert(len(lines) == len(filt))
AssertHolds == Len(lines) = Len(filt)

AssertPass ==
    /\ pc = "assert" /\ AssertHolds
    /\ pc' = "init_result"
    /\ UNCHANGED <<exc, files, outExists, outFile, open, events, stdout, locals>>

AssertFail ==
    /\ pc = "assert" /\ ~AssertHolds
    /\ exc' = "AssertionError"
    /\ pc' = "aborted"
    /\ UNCHANGED <<files, outExists, outFile, open, events, stdout, locals>>

\* line 20: result = ''
InitResult ==
    /\ pc = "init_result"
    /\ result' = <<>>
    /\ i' = 0
    /\ pc' = "merge_loop"
    /\ UNCHANGED <<exc, files, outExists, outFile, open, events, stdout,
                   filt, cov, lines, parts>>

\* lines 22-25: one iteration of  for i in range(len(lines));
\* filt[i] past the end of filt raises IndexError.
MergeStep ==
    /\ pc = "merge_loop" /\ i < Len(lines)
    /\ IF i < Len(filt)
       THEN /\ result' = result \o Label(filt[i + 1]) \o <<COMMA>>
                                \o lines[i + 1] \o <<NL>>
            /\ i' = i + 1
            /\ UNCHANGED <<pc, exc>>
       ELSE /\ exc' = "IndexError"
            /\ pc' = "aborted"
            /\ UNCHANGED <<result, i>>
    /\ UNCHANGED <<files, outExists, outFile, open, events, stdout,
                   filt, cov, lines, parts>>

\* line 22: range exhausted
MergeExit ==
    /\ pc = "merge_loop" /\ ~(i < Len(lines))
    /\ pc' = "open_out"
    /\ UNCHANGED <<exc, files, outExists, outFile, open, events, stdout, locals>>

\* line 27: open('log57-covar-fixed.csv', 'w') creates or truncates the file
OpenOut ==
    /\ pc = "open_out"
    /\ outExists' = TRUE
    /\ outFile' = <<>>
    /\ open' = open \cup {"out"}
    /\ events' = Append(events, "open:out")
    /\ pc' = "write_out"
    /\ UNCHANGED <<exc, files, stdout, locals>>

\* line 28: f.write(result)
WriteOut ==
    /\ pc = "write_out"
    /\ outFile' = outFile \o result
    /\ events' = Append(events, "write:out")
    /\ pc' = "close_out"
    /\ UNCHANGED <<exc, files, outExists, open, stdout, locals>>

\* end of the with block of lines 27-28; the script ends
CloseOut ==
    /\ pc = "close_out"
    /\ open' = open \ {"out"}
    /\ events' = Append(events, "close:out")
    /\ pc' = "done"
    /\ UNCHANGED <<exc, files, outExists, outFile, stdout, locals>>

Next ==
    \/ OpenFilter \/ OpenFilterFail \/ ReadFilter \/ CloseFilter
    \/ OpenCovar \/ OpenCovarFail \/ ReadCovar \/ CloseCovar
    \/ InitLines \/ SplitCov \/ DropFirstToken
    \/ ChunkStep \/ ChunkExit
    \/ PrintLines \/ PrintFilt
    \/ AssertPass \/ AssertFail
    \/ InitResult \/ MergeStep \/ MergeExit
    \/ OpenOut \/ WriteOut \/ CloseOut

Spec == Init /\ [][Next]_vars

\* The script runs one statement after another without ever waiting.
LiveSpec == Spec /\ WF_vars(Next)

\* ------------------------------------------- the inputs, as the files hold them
\* Lines of the filter file after its first line.
DataLines == SubSeq(ReadLines(filterFile), 2, Len(ReadLines(filterFile)))
NumRows == Len(DataLines)

\* Comma-delimited tokens of the covariance file after its first token.
ValueTokens == SubSeq(Split(covarFile, COMMA), 2, Len(Split(covarFile, COMMA)))
NumValues == Len(ValueTokens)

\* Text of a line before its first comma; the whole line when it has none.
BeforeFirstComma(line) ==
    LET at == {k \in 1..Len(line) : line[k] = COMMA}
    IN  IF at = {} THEN line
        ELSE SubSeq(line, 1, (CHOOSE k \in at : \A m \in at : k <= m) - 1)

\* The j-th group of value tokens (j from 1), comma-joined.
ExpectedChunk(j) ==
    Join(COMMA, SubSeq(ValueTokens, ChunkSize * (j - 1) + 1,
                       Min(ChunkSize * j, NumValues)))

ExpectedRow(j) ==
    BeforeFirstComma(DataLines[j]) \o <<COMMA>> \o ExpectedChunk(j) \o <<NL>>

ExpectedRows(n) == Flatten([j \in 1..n |-> ExpectedRow(j)])

\* The output file differs from what the run found, or an output operation ran.
OutTouched ==
    \/ \E k \in 1..Len(events) : events[k] \in {"open:out", "write:out", "close:out"}
    \/ outFile # (IF outExists THEN OldOut ELSE <<>>)
    \/ "out" \in open

AfterCheck == {"init_result", "merge_loop", "open_out", "write_out", "close_out", "done"}

Ended == pc \in {"done", "aborted"}

\* File operations of a complete run, in order.
IOOrder == << "open:filter", "read:filter", "close:filter",
              "open:covar", "read:covar", "close:covar",
              "open:out", "write:out", "close:out" >>

\* ------------------------------------------------------------------ claims

\* C1: when the number of labels differs from the number of chunks the run
\* aborts at the row-count check with the output file untouched, and any
\* operation on the output file comes after a check that found the counts equal.
C1_WriteOnlyAfterEqualCheck ==
    /\ OutTouched =>
         /\ Len(lines) = Len(filt)
         /\ pc \in {"write_out", "close_out", "done"}
         /\ exc = "none"
    /\ (Len(lines) # Len(filt) /\ pc \in AfterCheck \cup {"aborted"}
          /\ exc # "FileNotFoundError") =>
         /\ pc = "aborted"
         /\ exc = "AssertionError"
         /\ ~OutTouched

C1_Witness ==
    /\ pc = "aborted" /\ exc = "AssertionError"
    /\ Len(lines) # Len(filt) /\ Len(lines) > 0 /\ Len(filt) > 0
    /\ outExists /\ outFile = OldOut

\* C2: on a successful run the output file has one line per label, and its
\* line j (terminator aside) is label[j] + "," + chunk[j], label[j] being the
\* text before the first comma of data line j and chunk[j] the j-th group of
\* value tokens; rows are in filter-file order, none dropped or duplicated.
C2_LinePairsLabelWithChunk ==
    pc = "done" =>
      /\ Len(ReadLines(outFile)) = NumRows
      /\ \A j \in 1..NumRows :
           Chop(ReadLines(outFile)[j]) =
             BeforeFirstComma(DataLines[j]) \o <<COMMA>> \o ExpectedChunk(j)

\* C3: whenever the number of tokens after the first is not exactly 9 times
\* the number of filter data rows, nothing is written to the output.
C3_MismatchDetected ==
    OutTouched => NumValues = ChunkSize * NumRows

\* C4: every row written has one label followed by exactly 9 value tokens,
\* 10 comma-separated fields.
C4_TenFieldsPerRow ==
    pc = "done" =>
      \A j \in 1..Len(lines) :
        Len(Split(Label(filt[j]) \o <<COMMA>> \o lines[j], COMMA)) = ChunkSize + 1

\* C5: when the number of data rows equals (tokens - 1) / 9 the run ends
\* successfully and the output file has exactly that many lines.
C5_SuccessWritesThatManyLines ==
    (Ended /\ filterExists /\ covarExists /\ NumValues = ChunkSize * NumRows) =>
      /\ pc = "done"
      /\ Len(ReadLines(outFile)) = NumRows

\* C6: no text of the first line of the filter file and no text of the first
\* token of the covariance file reaches the result or the output file (the
\* marks "H" and "K" occur only there in the inputs).
C6_HeadersNeverInOutput ==
    /\ "H" \notin Range(result) /\ "K" \notin Range(result)
    /\ "H" \notin Range(outFile) /\ "K" \notin Range(outFile)
    /\ "read:filter" \in Range(events) => filt = DataLines
    /\ (pc = "chunk_loop" /\ lines = <<>>) => parts = ValueTokens

C6_Witness ==
    /\ pc = "done"
    /\ "H" \in Range(filterFile) /\ "K" \in Range(covarFile)
    /\ NumRows >= 1 /\ Len(outFile) > 0

\* C7: file operations happen in the fixed order filter, covariance, output,
\* never with two files open at once; the output is opened only once the
\* result is complete and is written exactly once; a run ended by a missing
\* input file leaves the output file untouched.
C7_FileAccessOrder ==
    /\ IsPrefix(events, IOOrder)
    /\ Cardinality(open) <= 1
    /\ Count(events, "write:out") <= 1
    /\ "out" \in open => (i = Len(lines) /\ pc \in {"write_out", "close_out"})
    /\ pc = "done" => (events = IOOrder /\ open = {})
    /\ pc = "aborted" => open = {}
    /\ exc = "FileNotFoundError" => (pc = "aborted" /\ ~OutTouched)

C7_Witness ==
    /\ pc = "done" /\ events = IOOrder /\ open = {}
    /\ Len(outFile) > 0 /\ outFile = result

\* C8 as stated: the label-row count is printed first, then the chunk count.
C8_LabelCountPrintedFirst ==
    (pc \in AfterCheck \cup {"assert"} \/ exc = "AssertionError") =>
      stdout = <<Len(filt), Len(lines)>>

\* C8 amended: on every run that reads both files exactly two counts are
\* printed before the check is evaluated, first the chunk count and then the
\* label-row count; nothing else is ever printed.
C8_ChunkCountPrintedFirst ==
    /\ (pc \in AfterCheck \cup {"assert"} \/ exc = "AssertionError") =>
         stdout = <<Len(lines), Len(filt)>>
    /\ pc = "print_filt" => stdout = <<Len(lines)>>
    /\ (pc \notin AfterCheck \cup {"assert", "print_filt"} /\ exc # "AssertionError") =>
         stdout = <<>>

C8_Witness ==
    /\ pc = "aborted" /\ exc = "AssertionError"
    /\ Len(lines) # Len(filt)
    /\ stdout = <<Len(lines), Len(filt)>>

\* C9: the chunking loop ends, and leaves ceil(n / 9) groups of the n value
\* tokens in order: all but the last of exactly 9 tokens, the last of 1 to 9,
\* and the groups joined by commas are the value tokens joined by commas.
C9_ChunkState ==
    /\ pc = "chunk_loop" =>
         /\ parts = SubSeq(ValueTokens, Min(Len(lines) * ChunkSize, NumValues) + 1,
                           NumValues)
         /\ Len(parts) > 0 => Len(lines) * ChunkSize + Len(parts) = NumValues
    /\ pc \in AfterCheck \cup {"chunk_loop", "print_lines", "print_filt", "assert"} =>
         /\ \A j \in 1..Len(lines) : lines[j] = ExpectedChunk(j)
         /\ \A j \in 1..Len(lines) :
              LET n == Len(Split(lines[j], COMMA))
              IN  IF j < Len(lines) THEN n = ChunkSize ELSE n \in 1..ChunkSize
    /\ pc \in AfterCheck \cup {"print_lines", "print_filt", "assert"} =>
         /\ Len(lines) = (NumValues + ChunkSize - 1) \div ChunkSize
         /\ Join(COMMA, lines) = Join(COMMA, ValueTokens)

C9_ChunkerPartitions ==
    /\ []C9_ChunkState
    /\ (pc = "chunk_loop") ~> (pc = "print_lines")

C9_Witness ==
    /\ pc = "print_lines"
    /\ Len(lines) = 3
    /\ Len(Split(lines[3], COMMA)) < ChunkSize

\* C10: for a data line without a comma the label is the line's content
\* without its line terminator, so its output row is a single line.
C10_NoCommaLabelIsLineContent ==
    pc = "done" =>
      \A j \in 1..Len(filt) :
        COMMA \notin Range(filt[j]) =>
          /\ Label(filt[j]) = Chop(filt[j])
          /\ NL \notin Range(Label(filt[j]))

====
